---------------------------- MODULE Spec2Model ----------------------------
(***************************************************************************)
(* UserIdleService of angular-simple-user-idle (src/unnamed/part_001).     *)
(*                                                                         *)
(* The service is a single-threaded RxJS program.  Every macrotask of the  *)
(* event loop is one action here: a call of the public API, the arrival of *)
(* a raw activity event, the expiry of one of the three timers (the two    *)
(* bufferTime windows and the interval of the countdown).  Everything a    *)
(* macrotask does synchronously - Subject.next walking its observers, the  *)
(* observers' callbacks, the teardown run by unsubscribe - is part of that *)
(* one action, so the handlers are written as operators from service state *)
(* to service state and composed.                                          *)
(*                                                                         *)
(* Time is Date.now() in milliseconds, counted from the start of the second *)
(* in which the constructor runs: a constructor that runs later in that    *)
(* second leaves the fields this one leaves, followed by Advance.  A timer *)
(* that is due must run before the clock moves on.                         *)
(***************************************************************************)
EXTENDS Naturals, Sequences, FiniteSets

\* ------------------------------------------------------------- bounds ---
\* The clock stops at MaxTime ms.
MaxTime == 3500
\* config.timeout ranges over 1..MaxTimeout seconds.
MaxTimeout == 2
\* Raw events that are let into one bufferTime window.
MaxBuffered == 1
\* Observers subscribed in all, to onIdleStatusChanged() and onTimeout().
MaxObservers == 2

\* ---------------------------------------------------- program constants ---
\* interval(1000): the period of the countdown.
TickPeriod == 1000

\* The clock is observed twice per TickPeriod and at every timer expiry; raw
\* events and API calls happen at the observed instants.
Grain == TickPeriod \div 2

\* DEFAULT_CONFIG
DEFAULT_CONFIG == [timeout |-> 300, sensitivityMilliseconds |-> 1500]

\* A JavaScript undefined (a field never assigned, an option left out).
Undefined == "undefined"

\* DEFAULT_ACTIVITY_EVENTS$ and one custom feed a caller may install.
DEFAULT_ACTIVITY_EVENTS == "default"
Sources == {DEFAULT_ACTIVITY_EVENTS, "custom"}

\* What the constructor is given: timeout always, sensitivityMilliseconds
\* optionally.
ConfigInputs ==
    [timeout : 1..MaxTimeout]
    \cup [timeout : 1..MaxTimeout, sensitivityMilliseconds : {500}]

\* What an observer's callback does, synchronously, with the value it gets.
\* An onIdleStatusChanged() observer may call stopWatching() when it is told
\* true; an onTimeout() observer may call startWatching().
IdleCallbacks == {"none", "stopWatching"}
TimeoutCallbacks == {"none", "startWatching"}

VARIABLES
    now,                    \* Date.now(), ms
    constructedAt,          \* Date.now() when the constructor ran
    config,                 \* this.config
    activityEvents,         \* this.activityEvents$
    lastActivity,           \* this.lastActivity, seconds
    isIdleDetected,         \* this.isIdleDetected (undefined reads as false)
    idleSubscription,       \* this.idleSubscription and the pipeline behind it
    activitySubscription,   \* this.activitySubscription and its pipeline
    idleObservers,          \* observers of idleDetected$, in subscription order
    timeoutObservers,       \* observers of onTimeout(), in subscription order
    watch,                  \* bookkeeping of the watch session
    subscriptions,          \* how many pipeline subscriptions and countdowns
                            \* are open, referred to by a field or not
    lastCall                \* what the macrotask that led here emitted

vars == <<now, constructedAt, config, activityEvents, lastActivity,
          isIdleDetected, idleSubscription, activitySubscription,
          idleObservers, timeoutObservers, watch, subscriptions, lastCall>>

\* ------------------------------------------------------------- helpers ---
Min(S) == CHOOSE x \in S : \A y \in S : x <= y

\* UserIdleService.nowInSeconds
nowInSeconds == now \div 1000

\* The constructor's merge {...DEFAULT_CONFIG, ...config}.
MergeConfig(given) ==
    [k \in DOMAIN DEFAULT_CONFIG |->
        IF k \in DOMAIN given THEN given[k] ELSE DEFAULT_CONFIG[k]]

\* A Subscription field of the service: never assigned, closed, or open with
\* the state of the pipeline it owns.  buffer/due are bufferTime's current
\* window and the expiry of its timer; timerOn/timerSource/timerDue are the
\* inner observable of switchMap (the countdown built by runTimer): whether
\* it is subscribed, the feed its takeUntil listens to, its next tick.
\* active marks the pipeline whose handler is running.
NoSubscription ==
    [state |-> Undefined, source |-> "none", buffer |-> 0, due |-> 0,
     timerOn |-> FALSE, timerSource |-> "none", timerDue |-> 0,
     active |-> FALSE]

ClosedSubscription == [NoSubscription EXCEPT !.state = "closed"]

\* source.pipe(bufferTime(sensitivityMilliseconds), ...).subscribe()
Subscribe(src) ==
    [NoSubscription EXCEPT !.state = "open", !.source = src,
                           !.due = now + config.sensitivityMilliseconds]

IsOpen(sub) == sub.state = "open"

\* The bookkeeping of a watch session, started when startWatching()
\* returns.
NewWatch ==
    [startedAt |-> now,
     observed |-> Len(timeoutObservers) > 0,
                        \* onTimeout() had an observer then
     quiet |-> TRUE,    \* no raw event on the watched feed since
     busy |-> TRUE,     \* every window the idle pipeline flushed since
                        \* held an event
     calm |-> TRUE,     \* neither idleDetected$ nor timeout$ emitted since
     unrecorded |-> FALSE,
                        \* the latest raw event heard since came in a
                        \* later second than lastActivity
     cancelled |-> FALSE,
                        \* a raw event has cancelled a countdown since
     seen |-> [i \in 1..Len(timeoutObservers) |-> 0]]
                        \* values each onTimeout() observer received since

\* ... and dropped when the idle subscription is closed; what the observers
\* received stays.
NoWatch(seen) ==
    [startedAt |-> 0, observed |-> FALSE, quiet |-> TRUE, busy |-> TRUE,
     calm |-> TRUE, unrecorded |-> FALSE,
     cancelled |-> FALSE, seen |-> seen]

\* What one macrotask emits: the values passed to idleDetected$.next, the
\* values each of its observers received, the number of timeout$.next(true)
\* and the number of values each onTimeout() observer received.
NoEffects ==
    [emitted |-> <<>>,
     got |-> [i \in 1..Len(idleObservers) |-> <<>>],
     raised |-> 0,
     seen |-> [i \in 1..Len(timeoutObservers) |-> 0]]

\* The service as one value at the start of a macrotask, so that handlers
\* compose.
Svc ==
    [activityEvents |-> activityEvents, lastActivity |-> lastActivity,
     isIdleDetected |-> isIdleDetected, idleSubscription |-> idleSubscription,
     activitySubscription |-> activitySubscription, watch |-> watch,
     subscriptions |-> subscriptions, call |-> NoEffects]

\* The macrotask ends in s.
Commit(s) ==
    /\ activityEvents' = s.activityEvents
    /\ lastActivity' = s.lastActivity
    /\ isIdleDetected' = s.isIdleDetected
    /\ idleSubscription' = s.idleSubscription
    /\ activitySubscription' = s.activitySubscription
    /\ watch' = s.watch
    /\ subscriptions' = s.subscriptions
    /\ lastCall' = s.call

\* ------------------------------------------------------------ handlers ---
RECURSIVE stopWatching(_)
RECURSIVE idleNext(_, _, _)
RECURSIVE timeoutNext(_, _)

\* idleDetected$.next(v): each observer of the subject, in subscription
\* order, receives v and runs its callback.
idleNext(s, v, i) ==
    IF i > Len(idleObservers) THEN s
    ELSE LET got == [s EXCEPT !.call.got[i] = Append(@, v)]
             after == IF idleObservers[i] = "stopWatching" /\ v
                      THEN stopWatching(got)
                      ELSE got
         IN idleNext(after, v, i + 1)

\* Variant: the subject is told true whatever the new value is.
setIdlenessAlwaysTrue(s, idleness) ==
    idleNext([s EXCEPT !.isIdleDetected = idleness,
                       !.call.emitted = Append(@, TRUE),
                       !.watch.calm = FALSE],
             TRUE, 1)

\* UserIdleService.setIdleness
setIdleness(s, idleness) ==
    idleNext([s EXCEPT !.isIdleDetected = idleness,
                       !.call.emitted = Append(@, idleness),
                       !.watch.calm = FALSE],
             idleness, 1)

\* Variant: the teardown forgets the inner observable, so finalize() never
\* runs.
unsubscribeIdleNoFinalize(s) ==
    IF ~IsOpen(s.idleSubscription) THEN s
    ELSE [s EXCEPT !.idleSubscription = ClosedSubscription,
                   !.subscriptions.pipelines = @ - 1,
                   !.watch = NoWatch(@.seen)]

\* Variant: the teardown runs on every unsubscribe(), closed or not.
unsubscribeIdleAgain(s) ==
    IF s.idleSubscription.state = Undefined THEN s
    ELSE setIdleness([s EXCEPT !.idleSubscription = ClosedSubscription,
                               !.subscriptions =
                                   IF IsOpen(s.idleSubscription)
                                   THEN [pipelines |-> @.pipelines - 1,
                                         countdowns |->
                                             IF s.idleSubscription.timerOn
                                             THEN @.countdowns - 1
                                             ELSE @.countdowns]
                                   ELSE @,
                               !.watch = NoWatch(@.seen)],
                     FALSE)

\* this.idleSubscription.unsubscribe(): the subscription is marked closed,
\* then its teardown runs, which unsubscribes the inner observable if there
\* is one, whose finalize() calls setIdleness(false).
unsubscribeIdle(s) ==
    IF ~IsOpen(s.idleSubscription) THEN s
    ELSE LET closed == [s EXCEPT !.idleSubscription = ClosedSubscription,
                                 !.subscriptions.pipelines = @ - 1,
                                 !.watch = NoWatch(@.seen)]
         IN IF s.idleSubscription.timerOn
            THEN setIdleness([closed EXCEPT
                                  !.subscriptions.countdowns = @ - 1],
                             FALSE)
            ELSE closed

\* Variant: stopWatching() forgets the activity subscription.
stopWatchingIdleOnly(s) == unsubscribeIdle(s)

\* UserIdleService.stopWatching
stopWatching(s) ==
    LET s1 == unsubscribeIdle(s)
    IN IF IsOpen(s1.activitySubscription)
       THEN [s1 EXCEPT !.activitySubscription = ClosedSubscription,
                       !.subscriptions.pipelines = @ - 1]
       ELSE s1

\* Variant: startWatching() does not stop the session it replaces; the
\* fields are overwritten while the old subscriptions stay open.
startWatchingNoStop(s) ==
    LET src == IF s.activityEvents = Undefined
               THEN DEFAULT_ACTIVITY_EVENTS
               ELSE s.activityEvents
    IN [s EXCEPT !.activityEvents = src,
                 !.activitySubscription = Subscribe(src),
                 !.idleSubscription = Subscribe(src),
                 !.subscriptions.pipelines = @ + 2,
                 !.watch = NewWatch]

\* Variant: startWatching() also stamps lastActivity.
startWatchingStamped(s) ==
    LET s1 == stopWatching(s)
        src == IF s1.activityEvents = Undefined
               THEN DEFAULT_ACTIVITY_EVENTS
               ELSE s1.activityEvents
    IN [s1 EXCEPT !.activityEvents = src,
                  !.lastActivity = nowInSeconds,
                  !.activitySubscription = Subscribe(src),
                  !.idleSubscription = Subscribe(src),
                  !.subscriptions.pipelines = @ + 2,
                  !.watch = NewWatch]

\* UserIdleService.startWatching
startWatching(s) ==
    LET s1 == stopWatching(s)
        src == IF s1.activityEvents = Undefined
               THEN DEFAULT_ACTIVITY_EVENTS
               ELSE s1.activityEvents
    IN [s1 EXCEPT !.activityEvents = src,
                  !.activitySubscription = Subscribe(src),
                  !.idleSubscription = Subscribe(src),
                  !.subscriptions.pipelines = @ + 2,
                  !.watch = NewWatch]

\* timeout$.next(true) as seen through onTimeout(): for each observer in
\* subscription order the pipe filter -> tap(stopWatching) -> map runs, and
\* then the observer's callback.
timeoutNext(s, i) ==
    IF i > Len(timeoutObservers) THEN s
    ELSE LET stopped == stopWatching(s)
             got == [stopped EXCEPT !.call.seen[i] = @ + 1,
                                    !.watch.seen[i] = @ + 1]
             after == IF timeoutObservers[i] = "startWatching"
                      THEN startWatching(got)
                      ELSE got
         IN timeoutNext(after, i + 1)

\* Variant: the guard on the live subscription is missing.
setCustomActivityEventsUnguarded(s, customEvents) ==
    [s EXCEPT !.activityEvents = customEvents]

\* UserIdleService.setCustomActivityEvents
setCustomActivityEvents(s, customEvents) ==
    IF IsOpen(s.idleSubscription)
    THEN s      \* console.error(...); return
    ELSE [s EXCEPT !.activityEvents = customEvents]

\* Variant: the countdown has no takeUntil; a raw event is only buffered.
rawEventBuffered(s, src) ==
    LET hears(sub) == IsOpen(sub) /\ sub.source = src
    IN [s EXCEPT !.activitySubscription.buffer =
                     IF hears(s.activitySubscription) THEN @ + 1 ELSE @,
                 !.idleSubscription.buffer =
                     IF hears(s.idleSubscription) THEN @ + 1 ELSE @,
                 !.watch.quiet = (@ /\ src # s.activityEvents),
                 !.watch.unrecorded =
                     IF hears(s.idleSubscription)
                     THEN s.lastActivity < nowInSeconds ELSE @]

\* A raw event on feed src reaches its subscribers in subscription order:
\* the buffer of the activity pipeline, the buffer of the idle pipeline, and
\* the takeUntil of a running countdown, which completes it; finalize()
\* then calls setIdleness(false).
rawEvent(s, src) ==
    LET hears(sub) == IsOpen(sub) /\ sub.source = src
        s1 == [s EXCEPT !.activitySubscription.buffer =
                            IF hears(s.activitySubscription) THEN @ + 1 ELSE @,
                        !.idleSubscription.buffer =
                            IF hears(s.idleSubscription) THEN @ + 1 ELSE @,
                        !.watch.quiet = (@ /\ src # s.activityEvents),
                        !.watch.unrecorded =
                            IF hears(s.idleSubscription)
                            THEN s.lastActivity < nowInSeconds ELSE @]
        idle == s1.idleSubscription
    IN IF IsOpen(idle) /\ idle.timerOn /\ idle.timerSource = src
       THEN setIdleness([s1 EXCEPT !.idleSubscription.timerOn = FALSE,
                                   !.idleSubscription.timerSource = "none",
                                   !.idleSubscription.timerDue = 0,
                                   !.subscriptions.countdowns = @ - 1,
                                   !.watch.cancelled = TRUE],
                        FALSE)
       ELSE s1

\* Variant: the tap of the activity pipeline is missing.
flushActivityUnstamped(s) ==
    [s EXCEPT !.activitySubscription.buffer = 0,
              !.activitySubscription.due =
                  @ + config.sensitivityMilliseconds]

\* The activity pipeline when its bufferTime timer expires:
\* filter(arr => !!arr.length), tap(lastActivity = nowInSeconds()).
flushActivity(s) ==
    LET arr == s.activitySubscription.buffer
        s1 == [s EXCEPT !.activitySubscription.buffer = 0,
                        !.activitySubscription.due =
                            @ + config.sensitivityMilliseconds]
    IN IF arr > 0
       THEN [s1 EXCEPT !.lastActivity = nowInSeconds,
                       !.watch.unrecorded = FALSE]
       ELSE s1

\* UserIdleService.runTimer, subscribed by switchMap: a countdown that
\* listens to the feed the service holds now and ticks first in one period.
runTimer(s) ==
    [s EXCEPT !.idleSubscription.timerOn = TRUE,
              !.idleSubscription.timerSource = s.activityEvents,
              !.idleSubscription.timerDue = now + TickPeriod,
              !.subscriptions.countdowns = @ + 1]

\* switchMap(() => runTimer()): a running inner observable is unsubscribed
\* first (its finalize() calls setIdleness(false)), then the new one is
\* subscribed.
switchMap(s) ==
    IF s.idleSubscription.timerOn
    THEN runTimer(setIdleness([s EXCEPT !.idleSubscription.timerOn = FALSE,
                                        !.subscriptions.countdowns = @ - 1],
                              FALSE))
    ELSE runTimer(s)

\* Variant: the filter does not look at the flag.
idleFilterEmptyOnly(s, arr) == arr = 0

\* Variant: the filter does not look at the window.
idleFilterAnyWindow(s, arr) == ~s.isIdleDetected

\* filter(arr => !arr.length && !this.isIdleDetected)
idleFilter(s, arr) == arr = 0 /\ ~s.isIdleDetected

\* The idle pipeline when its bufferTime timer expires: filter, map(true),
\* tap(setIdleness), switchMap(runTimer).  A subscriber that was
\* unsubscribed during tap (by an observer's callback) ignores next().
flushIdle(s) ==
    LET arr == s.idleSubscription.buffer
        s1 == [s EXCEPT !.idleSubscription.buffer = 0,
                        !.idleSubscription.due =
                            @ + config.sensitivityMilliseconds,
                        !.idleSubscription.active = TRUE,
                        !.watch.busy = (@ /\ arr > 0)]
        s2 == IF idleFilter(s1, arr) THEN setIdleness(s1, TRUE) ELSE s1
        s3 == IF idleFilter(s1, arr) /\ s2.idleSubscription.active
              THEN switchMap(s2)
              ELSE s2
    IN [s3 EXCEPT !.idleSubscription.active = FALSE]

\* Variant: the threshold itself counts as passed.
timedOutInclusive(s) == s.lastActivity + config.timeout <= nowInSeconds

\* lastActivity + config.timeout < nowInSeconds()
timedOut(s) == s.lastActivity + config.timeout < nowInSeconds

\* One tick of interval(1000) inside runTimer: the tap raises timeout$ when
\* the threshold has passed; the interval goes on unless it was
\* unsubscribed meanwhile.
tick(s) ==
    LET s1 == [s EXCEPT !.idleSubscription.active = TRUE]
        s2 == IF timedOut(s1)
              THEN timeoutNext([s1 EXCEPT !.call.raised = @ + 1,
                                          !.watch.calm = FALSE], 1)
              ELSE s1
        s3 == IF s2.idleSubscription.active /\ s2.idleSubscription.timerOn
              THEN [s2 EXCEPT !.idleSubscription.timerDue = @ + TickPeriod]
              ELSE s2
    IN [s3 EXCEPT !.idleSubscription.active = FALSE]

\* ------------------------------------------------------------- actions ---
Init ==
    /\ now = 0
    /\ constructedAt = now
    /\ config \in {MergeConfig(given) : given \in ConfigInputs}
    /\ activityEvents = Undefined
    /\ lastActivity = nowInSeconds
    /\ isIdleDetected = FALSE
    /\ idleSubscription = NoSubscription
    /\ activitySubscription = NoSubscription
    /\ idleObservers = <<>>
    /\ timeoutObservers = <<>>
    /\ watch = NoWatch(<<>>)
    /\ subscriptions = [pipelines |-> 0, countdowns |-> 0]
    /\ lastCall = NoEffects

Frame == <<now, constructedAt, config, idleObservers, timeoutObservers>>

StartWatching ==
    /\ Commit(startWatching(Svc))
    /\ UNCHANGED Frame

StopWatching ==
    /\ Commit(stopWatching(Svc))
    /\ UNCHANGED Frame

SetCustomActivityEventsTo(customEvents) ==
    /\ Commit(setCustomActivityEvents(Svc, customEvents))
    /\ UNCHANGED Frame

SetCustomActivityEvents ==
    \E customEvents \in Sources \ {DEFAULT_ACTIVITY_EVENTS} :
        SetCustomActivityEventsTo(customEvents)

\* Variant: idleDetected$ is a BehaviorSubject-like subject that replays the
\* current value to a new observer.
subscribeIdleReplay(s, callback) ==
    [s EXCEPT !.call.got = Append(@, <<s.isIdleDetected>>)]

\* subscribe() on onIdleStatusChanged(): a Subject replays nothing.
subscribeIdle(s, callback) ==
    [s EXCEPT !.call.got = Append(@, <<>>)]

SubscribeIdle ==
    \E callback \in IdleCallbacks :
        /\ Len(idleObservers) + Len(timeoutObservers) < MaxObservers
        /\ idleObservers' = Append(idleObservers, callback)
        /\ Commit(subscribeIdle(Svc, callback))
        /\ UNCHANGED <<now, constructedAt, config, timeoutObservers>>

\* subscribe() on onTimeout()
subscribeTimeout(s, callback) ==
    [s EXCEPT !.call.seen = Append(@, 0), !.watch.seen = Append(@, 0)]

SubscribeTimeout ==
    \E callback \in TimeoutCallbacks :
        /\ Len(idleObservers) + Len(timeoutObservers) < MaxObservers
        /\ timeoutObservers' = Append(timeoutObservers, callback)
        /\ Commit(subscribeTimeout(Svc, callback))
        /\ UNCHANGED <<now, constructedAt, config, idleObservers>>

RawEventOn(src) ==
    /\ \A sub \in {activitySubscription, idleSubscription} :
          IsOpen(sub) /\ sub.source = src => sub.buffer < MaxBuffered
    /\ Commit(rawEvent(Svc, src))
    /\ UNCHANGED Frame

RawEvent == \E src \in Sources : RawEventOn(src)

Due(sub) == IsOpen(sub) /\ sub.due = now

\* The window timer of the activity pipeline.
FlushActivity ==
    /\ Due(activitySubscription)
    /\ Commit(flushActivity(Svc))
    /\ UNCHANGED Frame

\* The window timer of the idle pipeline.  The two window timers are set one
\* after the other with the same delay, so the activity pipeline's runs
\* first.
FlushIdle ==
    /\ Due(idleSubscription)
    /\ ~Due(activitySubscription)
    /\ Commit(flushIdle(Svc))
    /\ UNCHANGED Frame

TickDue ==
    /\ IsOpen(idleSubscription)
    /\ idleSubscription.timerOn
    /\ idleSubscription.timerDue = now

\* The interval timer of the countdown.
Tick ==
    /\ TickDue
    /\ Commit(tick(Svc))
    /\ UNCHANGED Frame

\* The instants at which a timer expires.
Expiries ==
    {sub.due : sub \in {x \in {activitySubscription, idleSubscription} :
                            IsOpen(x)}}
    \cup {x.timerDue : x \in {y \in {idleSubscription} :
                                  IsOpen(y) /\ y.timerOn}}

\* Time passes, up to the next timer expiry or the next observed instant.
Advance ==
    /\ ~Due(activitySubscription) /\ ~Due(idleSubscription) /\ ~TickDue
    /\ LET next == Min(Expiries \cup {(now \div Grain + 1) * Grain})
       IN /\ next <= MaxTime
          /\ now' = next
    /\ Commit(Svc)
    /\ UNCHANGED <<constructedAt, config, idleObservers, timeoutObservers>>

Next ==
    \/ StartWatching
    \/ StopWatching
    \/ SetCustomActivityEvents
    \/ SubscribeIdle
    \/ SubscribeTimeout
    \/ RawEvent
    \/ FlushActivity
    \/ FlushIdle
    \/ Tick
    \/ Advance

Spec == Init /\ [][Next]_vars

\* -------------------------------------------------------------- claims ---
\* this.idleSubscription && !this.idleSubscription.closed
Watching == IsOpen(idleSubscription)

\* The inner observable of switchMap is subscribed: a countdown is live.
CountdownLive == Watching /\ idleSubscription.timerOn

\* The fields of the service.
ServiceState ==
    <<activityEvents, lastActivity, isIdleDetected, idleSubscription,
      activitySubscription>>

\* C1 - a watch session that began with an observer on onTimeout() and has
\* heard no raw event since (nobody stopped it) ends in a timeout: it is
\* over by the tick that follows its first window by timeout + 1 seconds,
\* the latest tick at which lastActivity + timeout < nowInSeconds() can
\* first hold, and no onTimeout() observer is told more than once per
\* session.
C1_QuietWatchTimesOutOnce ==
    LET deadline == watch.startedAt + config.sensitivityMilliseconds
                       + (config.timeout + 1) * TickPeriod
    IN /\ (Watching /\ watch.quiet /\ watch.observed => now <= deadline)
       /\ \A i \in 1..Len(timeoutObservers) : watch.seen[i] <= 1

\* C2 - after a timeout has fired (timeout$ was raised) and no observer
\* started watching again, both subscriptions are cancelled.
C2_TimeoutStopsWatching ==
    (/\ lastCall.raised > 0
     /\ \A i \in 1..Len(timeoutObservers) :
           timeoutObservers[i] # "startWatching")
    => ~IsOpen(idleSubscription) /\ ~IsOpen(activitySubscription)

\* C3 - while every window the idle pipeline has flushed since
\* startWatching() held a raw event, the session has emitted nothing on
\* idle-status-changed (so IdleFlag was never written), has raised no
\* timeout, and no countdown is running.
C3_BusyNeverIdle ==
    Watching /\ watch.busy => watch.calm /\ ~idleSubscription.timerOn

\* Two busy windows have been flushed and the third holds an event.
C3_Witness ==
    /\ Watching /\ watch.busy
    /\ idleSubscription.buffer > 0
    /\ idleSubscription.due >=
           watch.startedAt + 3 * config.sensitivityMilliseconds

C5_StopKeepsBoth ==
    [][StopWatching =>
          lastActivity' = lastActivity /\ isIdleDetected' = isIdleDetected
      ]_vars

\* C5 (amended) - stopWatching() leaves lastActivity as it was; it leaves
\* IdleFlag as it was and emits nothing unless a countdown is live, and
\* then the countdown's cleanup sets IdleFlag to false and emits false.
C5_StopKeepsLastActivity ==
    [][StopWatching =>
          /\ lastActivity' = lastActivity
          /\ IF CountdownLive
             THEN ~isIdleDetected' /\ lastCall'.emitted = <<FALSE>>
             ELSE isIdleDetected' = isIdleDetected
                    /\ lastCall'.emitted = <<>>
      ]_vars

\* stopWatching() was called on a live countdown.
C5_Witness ==
    /\ idleSubscription.state = "closed"
    /\ ~isIdleDetected
    /\ lastCall.emitted = <<FALSE>>
    /\ lastCall.raised = 0

\* C6 - setCustomActivityEvents(source) changes nothing while the idle
\* subscription is live and replaces the feed otherwise; startWatching()
\* never replaces a feed the service holds, and a live session's windows
\* and countdown listen to the feed the service holds.
C6_CustomEventsOnlyWhenStopped ==
    [][/\ \A customEvents \in Sources \ {DEFAULT_ACTIVITY_EVENTS} :
            SetCustomActivityEventsTo(customEvents) =>
                IF Watching
                THEN UNCHANGED ServiceState
                ELSE activityEvents' = customEvents
       /\ (activityEvents # Undefined /\ activityEvents' # activityEvents)
             => ~StartWatching
       /\ IsOpen(idleSubscription') =>
             /\ idleSubscription'.source = activityEvents'
             /\ activitySubscription'.source = activityEvents'
             /\ (idleSubscription'.timerOn =>
                    idleSubscription'.timerSource = activityEvents')
      ]_vars

\* A feed installed while stopped is the one the session and its countdown
\* listen to.
C6_Witness ==
    /\ CountdownLive
    /\ activityEvents = "custom"
    /\ idleSubscription.source = "custom"
    /\ idleSubscription.timerSource = "custom"

\* C7 - startWatching() yields two fresh subscriptions (open, empty window
\* ending one sensitivity from now, no countdown); the configuration
\* never changes; neither startWatching() nor stopWatching() writes
\* lastActivity, which changes only when a non-empty window of the activity
\* pipeline is flushed.
C7_RestartKeepsLastActivity ==
    [][/\ config' = config
       /\ StartWatching =>
             /\ lastActivity' = lastActivity
             /\ \A sub \in {idleSubscription', activitySubscription'} :
                   /\ IsOpen(sub) /\ sub.buffer = 0 /\ ~sub.timerOn
                   /\ sub.due = now + config.sensitivityMilliseconds
       /\ lastActivity' # lastActivity =>
             /\ ~StopWatching
             /\ Due(activitySubscription)
             /\ activitySubscription.buffer > 0
             /\ lastActivity' = nowInSeconds
      ]_vars

\* The first countdown of a restarted session runs while lastActivity is
\* the second of an activity recorded before the restart.
C7_Witness ==
    /\ CountdownLive
    /\ constructedAt \div 1000 < lastActivity
    /\ lastActivity < watch.startedAt \div 1000

\* C8 - after stopWatching() both subscriptions are closed, and a
\* stopWatching() that finds them closed or never assigned changes no
\* field and emits nothing; no step emits on idle-status-changed twice.
C8_StopIsIdempotent ==
    [][/\ StopWatching =>
             /\ ~IsOpen(idleSubscription') /\ ~IsOpen(activitySubscription')
             /\ (~IsOpen(idleSubscription) /\ ~IsOpen(activitySubscription)
                    => UNCHANGED ServiceState /\ lastCall' = NoEffects)
       /\ Len(lastCall'.emitted) <= 1
      ]_vars

\* One tick told two onTimeout() observers, so stopWatching() ran twice in
\* a row, and the cleanup emitted false once.
C8_Witness ==
    /\ ~IsOpen(idleSubscription)
    /\ lastCall.seen = <<1, 1>>
    /\ lastCall.emitted = <<FALSE>>

\* C9 - a session started at construction with an onTimeout() observer
\* and no raw event is over at the first tick at which timeout whole
\* seconds have passed since the start.
C9_ScenarioATimesOutOnTime ==
    LET window == config.sensitivityMilliseconds
        ticks == IF config.timeout * 1000 <= window + TickPeriod
                 THEN 1
                 ELSE (config.timeout * 1000 - window + TickPeriod - 1)
                          \div TickPeriod
        deadline == watch.startedAt + window + ticks * TickPeriod
    IN (/\ Watching /\ watch.quiet /\ watch.observed
        /\ watch.startedAt = constructedAt)
       => now <= deadline

\* C10 - in every step each observer of onIdleStatusChanged() receives
\* exactly the values idleDetected$ emitted in that step, in order; an
\* observer that has just subscribed has received nothing.
C10_MulticastNoReplay ==
    /\ Len(lastCall.got) = Len(idleObservers)
    /\ \A i \in 1..Len(idleObservers) : lastCall.got[i] = lastCall.emitted

\* Two observers were both told true, though the first stopped watching in
\* its callback.
C10_Witness ==
    /\ Len(idleObservers) = 2
    /\ idleObservers[1] = "stopWatching"
    /\ lastCall.got = <<<<TRUE>>, <<TRUE>>>>

\* C11 - in every reachable state IdleFlag is true exactly when a
\* countdown is live.
C11_FlagInLockStep == isIdleDetected <=> CountdownLive

\* C18 - once stopWatching() has returned (the idle subscription is closed,
\* by whoever called it) IdleFlag is false, and so it is false when the
\* first window of the next session is flushed: an empty first window
\* emits true and starts a countdown.
C18_NoStaleFlag ==
    /\ ~IsOpen(idleSubscription) => ~isIdleDetected
    /\ (/\ Watching /\ watch.quiet
        /\ now > watch.startedAt + config.sensitivityMilliseconds)
       => ~watch.calm

\* C13 - a tick that finds lastActivity + timeout passed raises the timeout
\* once and stops its countdown in the same step (IdleFlag false, false
\* emitted, no countdown left), whatever the number of onTimeout()
\* observers.
C13_TimeoutStopsCountdown ==
    [][(TickDue /\ timedOut(Svc) /\ Tick) =>
          /\ lastCall'.raised = 1
          /\ lastCall'.emitted = <<FALSE>>
          /\ ~isIdleDetected'
          /\ ~(IsOpen(idleSubscription') /\ idleSubscription'.timerOn)
      ]_vars

\* C19 - when the dispatch of a timeout to the onTimeout() observers is
\* over and one of them called startWatching() in its callback, a watch
\* session is live.
C19_RestartSurvivesDispatch ==
    (/\ lastCall.raised > 0
     /\ \E i \in 1..Len(timeoutObservers) :
           timeoutObservers[i] = "startWatching")
    => Watching /\ IsOpen(activitySubscription)

\* C14 - a tick raises the timeout exactly when nowInSeconds() is strictly
\* greater than lastActivity + timeout (not when they are equal); the
\* timeout is raised by ticks only, and a countdown that starts raises
\* nothing in that step and ticks first one TickPeriod later.
C14_StrictThreshold ==
    [][/\ (TickDue /\ Tick) =>
             lastCall'.raised =
                 IF nowInSeconds > lastActivity + config.timeout
                 THEN 1 ELSE 0
       /\ lastCall'.raised > 0 => (TickDue /\ Tick)
       /\ (~CountdownLive /\ IsOpen(idleSubscription')
              /\ idleSubscription'.timerOn) =>
             /\ idleSubscription'.timerDue = now + TickPeriod
             /\ lastCall'.raised = 0
      ]_vars

\* A tick (not a window flush: now is inside a window) ran at the second
\* lastActivity + timeout and raised nothing.
C14_Witness ==
    /\ CountdownLive
    /\ idleSubscription.timerDue = now + TickPeriod
    /\ (now - watch.startedAt) % config.sensitivityMilliseconds # 0
    /\ nowInSeconds = lastActivity + config.timeout
    /\ lastCall.raised = 0

C17_StopHaltsEverything ==
    [][/\ StopWatching =>
             /\ ~IsOpen(idleSubscription') /\ ~idleSubscription'.timerOn
             /\ ~IsOpen(activitySubscription')
       /\ (~IsOpen(idleSubscription) /\ ~IsOpen(activitySubscription)) =>
             /\ ~TickDue /\ ~Due(idleSubscription)
             /\ ~Due(activitySubscription)
             /\ lastActivity' = lastActivity
             /\ isIdleDetected' = isIdleDetected
             /\ lastCall'.emitted = <<>>
             /\ lastCall'.raised = 0
      ]_vars

\* After a stop a raw event arrived on the feed, in a later second than
\* the last recorded activity, and was not recorded.
C17_Witness ==
    /\ idleSubscription.state = "closed"
    /\ activitySubscription.state = "closed"
    /\ ~watch.quiet
    /\ lastActivity < nowInSeconds

\* C20 - idle-status-changed emits in a step exactly when the step changes
\* IdleFlag, once, and the value is the new flag; IdleFlag starts false, so
\* the emissions alternate true, false, true, ...
C20_EmissionsAlternate ==
    [][lastCall'.emitted =
          IF isIdleDetected' # isIdleDetected
          THEN <<isIdleDetected'>>
          ELSE <<>>
      ]_vars

\* An observer is told true by a session in which a raw event has already
\* cancelled an earlier countdown: true, false and true again.
C20_Witness ==
    /\ CountdownLive
    /\ watch.cancelled
    /\ idleSubscription.timerDue = now + TickPeriod
    /\ lastCall.emitted = <<TRUE>>
    /\ lastCall.got = <<<<TRUE>>>>

\* C16 - while a countdown is live, and so whenever one starts after a raw
\* event cancelled an earlier one, lastActivity is not older than the
\* second of the latest raw event the session has heard: the activity
\* pipeline has flushed the window that held it.
C16_CountdownSeesLatestActivity ==
    CountdownLive =>
        ~watch.unrecorded /\ activitySubscription.buffer = 0

\* A countdown runs after a raw event cancelled an earlier countdown of the
\* session, and lastActivity is the second of a flush after the start.
C16_Witness ==
    /\ CountdownLive
    /\ watch.cancelled
    /\ lastActivity > watch.startedAt \div 1000

=============================================================================
